---- MODULE Spec2Model ----
(***************************************************************************)
(* GoogleSearchConsoleApp (universal_mcp_google_search_console/app.py):    *)
(* the API-key injection helper, the four verb wrappers and the ten        *)
(* remote operations, as a state machine over the credential store, the    *)
(* requests handed to the HTTP transport and the outcome of the last call. *)
(***************************************************************************)
EXTENDS Integers, Sequences, FiniteSets, TLC

VARIABLES
    integration,  \* TRUE: an integration object was passed to __init__; FALSE: None
    store,        \* what integration.get_credentials() does now
    call,         \* the last operation call: name, arguments, response, store seen
    requests,     \* the requests the last operation call handed to the transport
    outcome,      \* how the last operation call ended: a return value or a raise
    helper        \* the last direct call of _add_api_key_param

vars == <<integration, store, call, requests, outcome, helper>>

----------------------------------------------------------------------------
(* Python values. A str is a sequence of one-character strings, so that    *)
(* urllib.parse.quote can be computed character by character.              *)

PyNone == [t |-> "None"]
PyStr(s) == [t |-> "str", v |-> s]
PyInt(n) == [t |-> "int", v |-> n]
PyList(l) == [t |-> "list", v |-> l]
PyDict(m) == [t |-> "dict", v |-> m]

EmptyMap == [k \in {} |-> PyNone]

\* d[k] = v on a mapping
SetItem(m, k, v) == [x \in (DOMAIN m) \cup {k} |-> IF x = k THEN v ELSE m[x]]

\* bool(v)
Truthy(v) ==
    CASE v.t = "None" -> FALSE
      [] v.t = "str" -> Len(v.v) > 0
      [] v.t = "list" -> Len(v.v) > 0
      [] v.t = "int" -> v.v # 0
      [] v.t = "dict" -> DOMAIN v.v # {}

----------------------------------------------------------------------------
(* Bounds of the inputs.                                                   *)

MaxSiteLen == 2
MaxFeedLen == 1

\* The characters the inputs are drawn from: one unreserved character, the
\* reserved characters of a URL, the space and the percent sign.
Alphabet == {"a", "/", ":", "?", "#", "&", " ", "%"}

RECURSIVE StringsUpTo(_)
StringsUpTo(n) ==
    IF n = 0 THEN {<<>>}
    ELSE LET shorter == StringsUpTo(n - 1)
         IN shorter \cup {Append(s, c) : s \in {x \in shorter : Len(x) = n - 1}, c \in Alphabet}

----------------------------------------------------------------------------
(* urllib.parse.quote(string, safe='')                                     *)

\* str.encode(): the byte of each character of the alphabet
Ord(c) ==
    CASE c = " " -> 32
      [] c = "#" -> 35
      [] c = "%" -> 37
      [] c = "&" -> 38
      [] c = "/" -> 47
      [] c = ":" -> 58
      [] c = "?" -> 63
      [] c = "a" -> 97

Chr(b) == CHOOSE c \in Alphabet : Ord(c) = b

\* _ALWAYS_SAFE: ASCII letters, digits and "_.-~"; safe='' adds nothing
AlwaysSafeBytes == (48..57) \cup (65..90) \cup (97..122) \cup {95, 46, 45, 126}

HexDigits == <<"0", "1", "2", "3", "4", "5", "6", "7", "8", "9", "A", "B", "C", "D", "E", "F">>

\* '%{:02X}'.format(b)
PercentByte(b) == <<"%", HexDigits[(b \div 16) + 1], HexDigits[(b % 16) + 1]>>

\* a plausible slip: quote() with its default safe='/'
QuoteByteSlashSafe(b) ==
    IF b \in AlwaysSafeBytes \cup {Ord("/")} THEN <<Chr(b)>> ELSE PercentByte(b)

QuoteByte(b) == IF b \in AlwaysSafeBytes THEN <<Chr(b)>> ELSE PercentByte(b)

RECURSIVE quote(_)
quote(s) == IF s = <<>> THEN <<>> ELSE QuoteByte(Ord(Head(s))) \o quote(Tail(s))

----------------------------------------------------------------------------
(* The credential store (external): get_credentials() raises, or returns   *)
(* None or a mapping.                                                      *)

CredRaises == [t |-> "raises"]
NoStore == [t |-> "absent"]

Key1 == PyStr(<<"k", "1">>)
Key2 == PyStr(<<"k", "2">>)

Stores ==
    { CredRaises,
      PyNone,
      PyDict(EmptyMap),
      PyDict([k \in {"api_key"} |-> PyNone]),
      PyDict([k \in {"api_key"} |-> PyStr(<<>>)]),
      PyDict([k \in {"api_key"} |-> Key1]),
      PyDict([k \in {"api_key"} |-> Key2]) }

\* credentials.get("api_key") on a mapping
DictGet(m, k) == IF k \in DOMAIN m THEN m[k] ELSE PyNone

----------------------------------------------------------------------------
(* _add_api_key_param(params): ret is the mapping returned, arg is the     *)
(* caller's object after the call.                                         *)

\* the try block: the mapping with the key added, or as it was when
\* get_credentials raises, credentials is not a mapping, or api_key is falsy
\* a plausible slip: the key is added without the `if api_key` test
WithCredentialKeyUnchecked(actual, st) ==
    IF st.t # "dict" THEN actual
    ELSE SetItem(actual, "key", DictGet(st.v, "api_key"))

WithCredentialKey(actual, st) ==
    IF st.t # "dict" THEN actual
    ELSE LET api_key == DictGet(st.v, "api_key")
         IN IF Truthy(api_key) THEN SetItem(actual, "key", api_key) ELSE actual

\* a plausible slip: no copy, the caller's own mapping is updated in place
AddApiKeyInPlace(params) ==
    LET actual_params == IF Truthy(params) THEN params.v ELSE EmptyMap
        result == IF "key" \notin DOMAIN actual_params /\ integration
                  THEN WithCredentialKey(actual_params, store)
                  ELSE actual_params
    IN [ ret |-> result,
         arg |-> IF Truthy(params) THEN PyDict(result) ELSE params ]

\* a plausible slip: the key sent by the previous call is kept and reused
AddApiKeyCached(params) ==
    LET actual_params == IF Truthy(params) THEN params.v ELSE EmptyMap
        cached == Len(requests) > 0 /\ "key" \in DOMAIN requests[1].params
    IN [ ret |-> IF "key" \notin DOMAIN actual_params /\ integration
                   THEN IF cached
                        THEN SetItem(actual_params, "key", requests[1].params["key"])
                        ELSE WithCredentialKey(actual_params, store)
                   ELSE actual_params,
         arg |-> params ]

_add_api_key_param(params) ==
    LET actual_params == IF Truthy(params) THEN params.v ELSE EmptyMap
    IN [ ret |-> IF "key" \notin DOMAIN actual_params /\ integration
                   THEN WithCredentialKey(actual_params, store)
                   ELSE actual_params,
         arg |-> params ]

----------------------------------------------------------------------------
(* The HTTP transport (external): the verb methods of the base class. Each *)
(* hands one request to the wire.                                          *)

Request(verb, url, data, params) ==
    [verb |-> verb, url |-> url, data |-> data, params |-> params]

TransportGet(url, params) == Request("GET", url, PyNone, params)
TransportPost(url, data, params) == Request("POST", url, data, params)
TransportPut(url, data, params) == Request("PUT", url, data, params)
TransportDelete(url, params) == Request("DELETE", url, PyNone, params)

(* The verb wrappers: the sequence of transport requests each one makes.   *)

\* a plausible slip: the request is sent a second time
GetTwice(url, params) ==
    LET r == TransportGet(url, _add_api_key_param(params).ret) IN <<r, r>>

_get(url, params) == <<TransportGet(url, _add_api_key_param(params).ret)>>

_post(url, data, params) == <<TransportPost(url, data, _add_api_key_param(params).ret)>>

\* line 87 calls super()._post
_put(url, data, params) == <<TransportPost(url, data, _add_api_key_param(params).ret)>>

_delete(url, params) == <<TransportDelete(url, _add_api_key_param(params).ret)>>

----------------------------------------------------------------------------
(* Responses of the transport (external). content is the body's text.      *)

Statuses == {200, 204, 301, 500}

EmptyText == <<>>
ObjectText == <<"{", "}">>

Responses == [kind : {"response"}, status : Statuses, content : {EmptyText, ObjectText}]
ConnectError == [kind |-> "error"]

OkResponse == [kind |-> "response", status |-> 200, content |-> ObjectText]

\* httpx.Response.is_success
is_success(resp) == resp.status >= 200 /\ resp.status <= 299

Return(v) == [kind |-> "return", value |-> v]
Raise(exc, resp) == [kind |-> "raise", exc |-> exc, response |-> resp]

\* response.json(): the decoded body, or a decode error on text that is no JSON
json(resp) ==
    IF resp.content = ObjectText THEN Return(PyDict(EmptyMap))
    ELSE Raise("JSONDecodeError", resp)

\* response.raise_for_status() followed by `rest`
raise_for_status(resp, rest) ==
    IF is_success(resp) THEN rest ELSE Raise("HTTPStatusError", resp)

(* The two endings of an operation, given what the wrapper call produced.  *)

\* a plausible slip: the status is not checked before the body is decoded
JsonUnchecked(resp) ==
    IF resp.kind = "error" THEN Raise("ConnectError", resp) ELSE json(resp)

\* response.raise_for_status(); return response.json()
ReturnJson(resp) ==
    IF resp.kind = "error" THEN Raise("ConnectError", resp)
    ELSE raise_for_status(resp, json(resp))

\* a plausible slip: the body of a no-content answer is decoded
NoneAfterDecoding(resp) ==
    IF resp.kind = "error" THEN Raise("ConnectError", resp)
    ELSE raise_for_status(resp, IF json(resp).kind = "raise" THEN json(resp) ELSE Return(PyNone))

\* response.raise_for_status(); return None
ReturnNone(resp) ==
    IF resp.kind = "error" THEN Raise("ConnectError", resp)
    ELSE raise_for_status(resp, Return(PyNone))

----------------------------------------------------------------------------
(* The base URLs set by __init__ and the fixed parts of the paths.         *)

webmasters_base_url ==
    <<"h", "t", "t", "p", "s", ":", "/", "/", "w", "w", "w", ".", "g", "o", "o", "g", "l", "e", "a", "p", "i", "s", ".", "c", "o", "m", "/", "w", "e", "b", "m", "a", "s", "t", "e", "r", "s", "/", "v", "3">>
searchconsole_base_url ==
    <<"h", "t", "t", "p", "s", ":", "/", "/", "s", "e", "a", "r", "c", "h", "c", "o", "n", "s", "o", "l", "e", ".", "g", "o", "o", "g", "l", "e", "a", "p", "i", "s", ".", "c", "o", "m", "/", "v", "1">>

SitesSlash == <<"/", "s", "i", "t", "e", "s", "/">>
Sites == <<"/", "s", "i", "t", "e", "s">>
SitemapsSlash == <<"/", "s", "i", "t", "e", "m", "a", "p", "s", "/">>
Sitemaps == <<"/", "s", "i", "t", "e", "m", "a", "p", "s">>
SearchAnalyticsQuery == <<"/", "s", "e", "a", "r", "c", "h", "A", "n", "a", "l", "y", "t", "i", "c", "s", "/", "q", "u", "e", "r", "y">>
UrlInspectionIndexInspect == <<"/", "u", "r", "l", "I", "n", "s", "p", "e", "c", "t", "i", "o", "n", "/", "i", "n", "d", "e", "x", ":", "i", "n", "s", "p", "e", "c", "t">>

\* f"{base}/sites/{siteUrl_encoded}/sitemaps/{feedpath_encoded}"
SitemapUrl(siteUrl, feedpath) ==
    webmasters_base_url \o SitesSlash \o quote(siteUrl) \o SitemapsSlash \o quote(feedpath)

\* f"{base}/sites/{siteUrl_encoded}"
SiteUrl(siteUrl) == webmasters_base_url \o SitesSlash \o quote(siteUrl)

----------------------------------------------------------------------------
(* An operation call, from entry to return or raise: the requests its      *)
(* wrapper call made, and its ending on the response the transport gave.   *)

\* call: the operation and its arguments, the response the transport gave,
\* the credential store as it was during the call, and whether the store had
\* changed since the call before
Complete(op, args, reqs, resp, ending) ==
    /\ call' = [op |-> op, args |-> args, response |-> resp, store |-> store,
                changed |-> call.op # "none" /\ call.store # store]
    /\ requests' = reqs
    /\ outcome' = ending
    /\ UNCHANGED <<integration, store, helper>>

delete_sitemap(siteUrl, feedpath, resp) ==
    Complete("delete_sitemap", [siteUrl |-> siteUrl, feedpath |-> feedpath],
             _delete(SitemapUrl(siteUrl, feedpath), PyNone), resp, ReturnNone(resp))

get_sitemap(siteUrl, feedpath, resp) ==
    Complete("get_sitemap", [siteUrl |-> siteUrl, feedpath |-> feedpath],
             _get(SitemapUrl(siteUrl, feedpath), PyNone), resp, ReturnJson(resp))

\* a plausible slip: sitemapIndex is tested for truth, not against None
ListSitemapsParamsTruthy(sitemapIndex) ==
    LET query_params == IF Truthy(sitemapIndex)
                        THEN SetItem(EmptyMap, "sitemapIndex", sitemapIndex)
                        ELSE EmptyMap
    IN IF Truthy(PyDict(query_params)) THEN PyDict(query_params) ELSE PyNone

\* lines 162-166: the params argument list_sitemaps passes to _get
ListSitemapsParams(sitemapIndex) ==
    LET query_params == IF sitemapIndex # PyNone
                        THEN SetItem(EmptyMap, "sitemapIndex", sitemapIndex)
                        ELSE EmptyMap
    IN IF Truthy(PyDict(query_params)) THEN PyDict(query_params) ELSE PyNone

list_sitemaps(siteUrl, sitemapIndex, resp) ==
    Complete("list_sitemaps", [siteUrl |-> siteUrl, sitemapIndex |-> sitemapIndex],
             _get(webmasters_base_url \o SitesSlash \o quote(siteUrl) \o Sitemaps,
                  ListSitemapsParams(sitemapIndex)),
             resp, ReturnJson(resp))

submit_sitemap(siteUrl, feedpath, resp) ==
    Complete("submit_sitemap", [siteUrl |-> siteUrl, feedpath |-> feedpath],
             _put(SitemapUrl(siteUrl, feedpath), PyNone, PyNone), resp, ReturnNone(resp))

add_site(siteUrl, resp) ==
    Complete("add_site", [siteUrl |-> siteUrl],
             _put(SiteUrl(siteUrl), PyNone, PyNone), resp, ReturnJson(resp))

delete_site(siteUrl, resp) ==
    Complete("delete_site", [siteUrl |-> siteUrl],
             _delete(SiteUrl(siteUrl), PyNone), resp, ReturnNone(resp))

get_site(siteUrl, resp) ==
    Complete("get_site", [siteUrl |-> siteUrl],
             _get(SiteUrl(siteUrl), PyNone), resp, ReturnJson(resp))

list_sites(resp) ==
    Complete("list_sites", [none |-> TRUE],
             _get(webmasters_base_url \o Sites, PyNone), resp, ReturnJson(resp))

\* lines 292-297: the body of index_inspect_url
InspectBody(inspectionUrl, siteUrl, languageCode) ==
    LET b0 == SetItem(SetItem(EmptyMap, "inspectionUrl", PyStr(inspectionUrl)),
                      "siteUrl", PyStr(siteUrl))
    IN IF languageCode # PyNone THEN SetItem(b0, "languageCode", languageCode) ELSE b0

index_inspect_url(inspectionUrl, siteUrl, languageCode, resp) ==
    Complete("index_inspect_url",
             [inspectionUrl |-> inspectionUrl, siteUrl |-> siteUrl, languageCode |-> languageCode],
             _post(searchconsole_base_url \o UrlInspectionIndexInspect,
                   PyDict(InspectBody(inspectionUrl, siteUrl, languageCode)), PyNone),
             resp, ReturnJson(resp))

\* request_body[key] = value when value is not None
SetIfGiven(body, key, value) == IF value # PyNone THEN SetItem(body, key, value) ELSE body

\* a plausible slip: search_type is sent under its Python name
AnalyticsBodyUnmapped(o) ==
    LET b0 == SetItem(SetItem(EmptyMap, "startDate", o.startDate), "endDate", o.endDate)
        b1 == SetIfGiven(b0, "dimensions", o.dimensions)
        b2 == SetIfGiven(b1, "dimensionFilterGroups", o.dimensionFilterGroups)
        b3 == SetIfGiven(b2, "aggregationType", o.aggregationType)
        b4 == SetIfGiven(b3, "rowLimit", o.rowLimit)
        b5 == SetIfGiven(b4, "startRow", o.startRow)
        b6 == SetIfGiven(b5, "dataState", o.dataState)
    IN SetIfGiven(b6, "search_type", o.search_type)

\* lines 363-380: the body of query_search_analytics
AnalyticsBody(o) ==
    LET b0 == SetItem(SetItem(EmptyMap, "startDate", o.startDate), "endDate", o.endDate)
        b1 == SetIfGiven(b0, "dimensions", o.dimensions)
        b2 == SetIfGiven(b1, "dimensionFilterGroups", o.dimensionFilterGroups)
        b3 == SetIfGiven(b2, "aggregationType", o.aggregationType)
        b4 == SetIfGiven(b3, "rowLimit", o.rowLimit)
        b5 == SetIfGiven(b4, "startRow", o.startRow)
        b6 == SetIfGiven(b5, "dataState", o.dataState)
    IN SetIfGiven(b6, "type", o.search_type)

\* o: the arguments after siteUrl, as a record
query_search_analytics(siteUrl, o, resp) ==
    Complete("query_search_analytics", [siteUrl |-> siteUrl, options |-> o],
             _post(webmasters_base_url \o SitesSlash \o quote(siteUrl) \o SearchAnalyticsQuery,
                   PyDict(AnalyticsBody(o)), PyNone),
             resp, ReturnJson(resp))

----------------------------------------------------------------------------
(* A direct call of _add_api_key_param, and a change of the credential     *)
(* store between calls.                                                    *)

AddApiKeyCall(params) ==
    /\ helper' = [called |-> TRUE, input |-> params, store |-> store,
                  arg |-> _add_api_key_param(params).arg,
                  ret |-> _add_api_key_param(params).ret]
    /\ UNCHANGED <<integration, store, call, requests, outcome>>

StoreChange(st) ==
    /\ integration
    /\ st # store
    /\ store' = st
    /\ UNCHANGED <<integration, call, requests, outcome, helper>>

----------------------------------------------------------------------------
(* Inputs.                                                                 *)

SampleSites == {<<"a", "/">>}
SampleFeeds == {<<"?">>}
SitemapIndexArgs == {PyNone, PyStr(<<>>), PyStr(<<"a">>)}
LanguageArgs == {PyNone, PyStr(<<"a">>)}

StartDate == PyStr(<<"2", "0", "2", "4", "-", "0", "1", "-", "0", "1">>)
EndDate == PyStr(<<"2", "0", "2", "4", "-", "0", "1", "-", "3", "1">>)

AllOptions ==
    [ startDate : {StartDate},
      endDate : {EndDate},
      dimensions : {PyNone, PyList(<<>>), PyList(<<PyStr(<<"d", "a", "t", "e">>)>>)},
      dimensionFilterGroups : {PyNone, PyList(<<>>)},
      aggregationType : {PyNone, PyStr(<<"a", "u", "t", "o">>)},
      rowLimit : {PyNone, PyInt(0), PyInt(10)},
      startRow : {PyNone, PyInt(0)},
      dataState : {PyNone, PyStr(<<"a", "l", "l">>)},
      search_type : {PyNone, PyStr(<<>>), PyStr(<<"w", "e", "b">>)} ]

OptionalFields ==
    {"dimensions", "dimensionFilterGroups", "aggregationType", "rowLimit",
     "startRow", "dataState", "search_type"}

\* nothing optional given, or everything
SampleOptions ==
    {o \in AllOptions : \/ \A f \in OptionalFields : o[f] = PyNone
                        \/ \A f \in OptionalFields : Truthy(o[f])}

\* the mappings a caller may pass to _add_api_key_param
ParamValues == {PyNone, PyStr(<<>>), PyStr(<<"o", "w", "n">>)}
ParamKeys == {"key", "sitemapIndex"}
ParamInputs ==
    {PyNone} \cup {PyDict(m) : m \in UNION {[D -> ParamValues] : D \in SUBSET ParamKeys}}

----------------------------------------------------------------------------
(* Specifications.                                                         *)

Init ==
    /\ integration \in BOOLEAN
    /\ store \in (IF integration THEN Stores ELSE {NoStore})
    /\ call = [op |-> "none"]
    /\ requests = <<>>
    /\ outcome = [kind |-> "none"]
    /\ helper = [called |-> FALSE]

AllResponses == Responses \cup {ConnectError}

\* the ten operations, and the credential store changing between calls
Next ==
    \/ \E siteUrl \in SampleSites, feedpath \in SampleFeeds, resp \in AllResponses :
          delete_sitemap(siteUrl, feedpath, resp)
    \/ \E siteUrl \in SampleSites, feedpath \in SampleFeeds, resp \in AllResponses :
          get_sitemap(siteUrl, feedpath, resp)
    \/ \E siteUrl \in SampleSites, sitemapIndex \in SitemapIndexArgs, resp \in AllResponses :
          list_sitemaps(siteUrl, sitemapIndex, resp)
    \/ \E siteUrl \in SampleSites, feedpath \in SampleFeeds, resp \in AllResponses :
          submit_sitemap(siteUrl, feedpath, resp)
    \/ \E siteUrl \in SampleSites, resp \in AllResponses : add_site(siteUrl, resp)
    \/ \E siteUrl \in SampleSites, resp \in AllResponses : delete_site(siteUrl, resp)
    \/ \E siteUrl \in SampleSites, resp \in AllResponses : get_site(siteUrl, resp)
    \/ \E resp \in AllResponses : list_sites(resp)
    \/ \E inspectionUrl \in SampleSites, siteUrl \in SampleSites,
          languageCode \in LanguageArgs, resp \in AllResponses :
          index_inspect_url(inspectionUrl, siteUrl, languageCode, resp)
    \/ \E siteUrl \in SampleSites, o \in SampleOptions, resp \in AllResponses :
          query_search_analytics(siteUrl, o, resp)
    \/ \E st \in Stores : StoreChange(st)

Spec == Init /\ [][Next]_vars

\* _add_api_key_param called directly, on every mapping and every store
NextHelper ==
    \/ \E params \in ParamInputs : AddApiKeyCall(params)
    \/ \E st \in Stores : StoreChange(st)

SpecHelper == Init /\ [][NextHelper]_vars

\* the operations with a path parameter, on every string within the bounds
InitPath ==
    /\ integration = TRUE
    /\ store = PyDict([k \in {"api_key"} |-> Key1])
    /\ call = [op |-> "none"]
    /\ requests = <<>>
    /\ outcome = [kind |-> "none"]
    /\ helper = [called |-> FALSE]

SiteInputs == StringsUpTo(MaxSiteLen)
FeedInputs == StringsUpTo(MaxFeedLen)
NoOptions == CHOOSE o \in AllOptions : \A f \in OptionalFields : o[f] = PyNone

\* one call per behaviour: the input is all that varies
FirstCall == call.op = "none"

NextPath ==
    \/ FirstCall /\ \E siteUrl \in SiteInputs, feedpath \in FeedInputs :
                        delete_sitemap(siteUrl, feedpath, OkResponse)
    \/ FirstCall /\ \E siteUrl \in SiteInputs, feedpath \in FeedInputs :
                        get_sitemap(siteUrl, feedpath, OkResponse)
    \/ FirstCall /\ \E siteUrl \in SiteInputs : list_sitemaps(siteUrl, PyNone, OkResponse)
    \/ FirstCall /\ \E siteUrl \in SiteInputs, feedpath \in FeedInputs :
                        submit_sitemap(siteUrl, feedpath, OkResponse)
    \/ FirstCall /\ \E siteUrl \in SiteInputs : add_site(siteUrl, OkResponse)
    \/ FirstCall /\ \E siteUrl \in SiteInputs : delete_site(siteUrl, OkResponse)
    \/ FirstCall /\ \E siteUrl \in SiteInputs : get_site(siteUrl, OkResponse)
    \/ FirstCall /\ \E siteUrl \in SiteInputs :
                        query_search_analytics(siteUrl, NoOptions, OkResponse)

SpecPath == InitPath /\ [][NextPath]_vars

\* query_search_analytics on every combination of its optional arguments
NextBody ==
    FirstCall /\ \E siteUrl \in SampleSites, o \in AllOptions :
                    query_search_analytics(siteUrl, o, OkResponse)

SpecBody == Init /\ [][NextBody]_vars

----------------------------------------------------------------------------
(* Properties.                                                             *)

Called == call.op # "none"

\* the mapping a parameter argument stands for: None stands for no entries
AsMap(params) == IF params.t = "dict" THEN params.v ELSE EmptyMap

\* a credential store from which no usable key comes: the lookup raises,
\* or the credentials hold no api_key, or an empty one
Keyless(st) ==
    \/ st.t # "dict"
    \/ "api_key" \notin DOMAIN st.v
    \/ st.v["api_key"] \in {PyNone, PyStr(<<>>)}

\* the key a request carries, None when it carries none
KeyCarried(r) == IF "key" \in DOMAIN r.params THEN r.params["key"] ELSE PyNone

\* the query parameters an operation passes of its own
OwnParams ==
    IF call.op = "list_sitemaps" /\ call.args.sitemapIndex # PyNone
    THEN [k \in {"sitemapIndex"} |-> call.args.sitemapIndex]
    ELSE EmptyMap

\* C1: _add_api_key_param leaves the caller's mapping as it was; its result is
\* the input with at most a 'key' entry added; an input that has 'key' comes
\* back equal, its own value kept.
C1_InputKeptAtMostKeyAdded ==
    helper.called =>
        LET given == AsMap(helper.input)
        IN /\ helper.arg = helper.input
           /\ DOMAIN helper.ret \in {DOMAIN given, DOMAIN given \cup {"key"}}
           /\ \A k \in DOMAIN given : helper.ret[k] = given[k]
           /\ "key" \in DOMAIN given => helper.ret = given

\* C1 witness: the caller passed its own 'key' while the store held a key, and
\* the caller's value came back.
C1_Witness ==
    /\ helper.called
    /\ integration
    /\ helper.store = PyDict([k \in {"api_key"} |-> Key1])
    /\ helper.input.t = "dict"
    /\ DOMAIN helper.input.v = {"key", "sitemapIndex"}
    /\ helper.input.v["key"] = PyStr(<<"o", "w", "n">>)
    /\ helper.ret = helper.input.v

\* the verb of the wrapper each operation calls
WrapperVerb(op) ==
    CASE op \in {"get_sitemap", "list_sitemaps", "get_site", "list_sites"} -> "GET"
      [] op \in {"index_inspect_url", "query_search_analytics"} -> "POST"
      [] op \in {"submit_sitemap", "add_site"} -> "PUT"
      [] op \in {"delete_sitemap", "delete_site"} -> "DELETE"

\* C2: every request reaches the transport under the verb of the wrapper that
\* made it; those of submit_sitemap and add_site as PUT.
C2_SameVerb ==
    Called => \A i \in 1..Len(requests) : requests[i].verb = WrapperVerb(call.op)

\* C3: when the credential lookup raises or gives no usable key, the request is
\* still made, with the operation's own parameters and no 'key' entry, and the
\* call ends as the response decides.
C3_NoKeyNotFatal ==
    (Called /\ Keyless(call.store)) =>
        /\ Len(requests) = 1
        /\ requests[1].params = OwnParams
        /\ "key" \notin DOMAIN requests[1].params
        /\ call.response = OkResponse => outcome.kind = "return"

\* C3 witness: get_credentials raised during a get_site call that went through.
C3_Witness ==
    /\ Called
    /\ integration
    /\ call.op = "get_site"
    /\ call.store = CredRaises
    /\ call.response = OkResponse
    /\ Len(requests) = 1
    /\ requests[1].params = EmptyMap
    /\ outcome = Return(PyDict(EmptyMap))

\* the characters of the inputs an unencoded URL path cannot hold
ReservedChars == {"/", ":", "?", "#", "&", " "}

\* the percent-encoded form of each (RFC 3986, section 2.1)
EncodedForm(c) ==
    CASE c = "/" -> <<"%", "2", "F">>
      [] c = ":" -> <<"%", "3", "A">>
      [] c = "?" -> <<"%", "3", "F">>
      [] c = "#" -> <<"%", "2", "3">>
      [] c = "&" -> <<"%", "2", "6">>
      [] c = " " -> <<"%", "2", "0">>

Occurrences(s, c) == Cardinality({i \in 1..Len(s) : s[i] = c})

Contains(s, sub) ==
    \E i \in 1..(Len(s) - Len(sub) + 1) : SubSeq(s, i, i + Len(sub) - 1) = sub

PathOps ==
    {"delete_sitemap", "get_sitemap", "list_sitemaps", "submit_sitemap", "add_site",
     "delete_site", "get_site", "query_search_analytics"}
FeedOps == {"delete_sitemap", "get_sitemap", "submit_sitemap"}

\* the '/' of each operation's path template
TemplateSlashes(op) ==
    CASE op \in FeedOps -> 4
      [] op = "query_search_analytics" -> 4
      [] op = "list_sitemaps" -> 3
      [] op \in {"add_site", "delete_site", "get_site"} -> 2

\* the path parameters of the last call
PathArgs ==
    IF call.op \in FeedOps THEN {call.args.siteUrl, call.args.feedpath} ELSE {call.args.siteUrl}

\* C4: in the URL of an operation with a path parameter, after the base URL, no
\* reserved character of a parameter appears raw, each appears in its
\* percent-encoded form, and the path has the '/' of its template and no more.
C4_PathParametersEncoded ==
    (Called /\ call.op \in PathOps) =>
        LET url == requests[1].url
            base == Len(webmasters_base_url)
            path == SubSeq(url, base + 1, Len(url))
        IN /\ SubSeq(url, 1, base) = webmasters_base_url
           /\ \A c \in ReservedChars \ {"/"} : Occurrences(path, c) = 0
           /\ Occurrences(path, "/") = TemplateSlashes(call.op)
           /\ \A arg \in PathArgs : \A i \in 1..Len(arg) :
                 arg[i] \in ReservedChars => Contains(path, EncodedForm(arg[i]))

\* C4 witness: delete_sitemap of a site URL with a '/' and a feed path '?'.
C4_Witness ==
    /\ call.op = "delete_sitemap"
    /\ call.args.siteUrl = <<"a", "/">>
    /\ call.args.feedpath = <<"?">>
    /\ requests[1].url = webmasters_base_url \o <<"/", "s", "i", "t", "e", "s", "/", "a", "%", "2", "F", "/", "s", "i", "t", "e", "m", "a", "p", "s", "/", "%", "3", "F">>

\* C5: on a response that is not 2xx every operation raises an HTTP error that
\* exposes the status code, and returns nothing.
C5_ErrorStatusRaises ==
    (Called /\ call.response.kind = "response"
            /\ ~(call.response.status \in 200..299)) =>
        /\ outcome.kind = "raise"
        /\ outcome.exc = "HTTPStatusError"
        /\ outcome.response.status = call.response.status

\* C5 witness: get_site answered 500 with a JSON body, and raised.
C5_Witness ==
    /\ call.op = "get_site"
    /\ call.response = [kind |-> "response", status |-> 500, content |-> ObjectText]
    /\ outcome.kind = "raise"
    /\ outcome.response.status = 500

\* the key a call is to carry: the store's api_key as it is during the call
ExpectedKey(st) == IF integration /\ ~Keyless(st) THEN st.v["api_key"] ELSE PyNone

\* C6: the request of every call carries the key the store holds during that
\* call, or none if it then has none, whatever an earlier call carried.
C6_KeyReadAtCallTime ==
    Called => /\ Len(requests) >= 1
              /\ KeyCarried(requests[1]) = ExpectedKey(call.store)

\* C6 witness: a call made after the store changed carries the new key.
C6_Witness ==
    /\ Called
    /\ call.changed
    /\ call.store = PyDict([k \in {"api_key"} |-> Key2])
    /\ KeyCarried(requests[1]) = Key2

\* C7: every call of an operation makes exactly one transport request, whatever
\* the response.
C7_OneRequestPerCall == Called => Len(requests) = 1

\* C7 witness: a call answered 500 raised after its single request.
C7_Witness ==
    /\ Called
    /\ call.response.kind = "response"
    /\ call.response.status = 500
    /\ outcome.kind = "raise"
    /\ Len(requests) = 1

\* the name each argument of query_search_analytics is sent under
ApiName(f) == IF f = "search_type" THEN "type" ELSE f

\* C8: the body of query_search_analytics holds startDate, endDate and exactly
\* the optional arguments that were given, each under its own name and
\* search_type under 'type'; never 'search_type', never a None.
C8_BodyHoldsGivenFields ==
    (Called /\ call.op = "query_search_analytics") =>
        LET o == call.args.options
            body == requests[1].data.v
        IN /\ requests[1].data.t = "dict"
           /\ DOMAIN body = {"startDate", "endDate"}
                              \cup {ApiName(f) : f \in {g \in OptionalFields : o[g] # PyNone}}
           /\ body["startDate"] = o.startDate
           /\ body["endDate"] = o.endDate
           /\ \A f \in OptionalFields : o[f] # PyNone => body[ApiName(f)] = o[f]
           /\ "search_type" \notin DOMAIN body
           /\ \A k \in DOMAIN body : body[k] # PyNone

\* C8 witness: search_type 'web' and a rowLimit of 0 given, startRow not.
C8_Witness ==
    /\ call.op = "query_search_analytics"
    /\ call.args.options.search_type = PyStr(<<"w", "e", "b">>)
    /\ call.args.options.rowLimit = PyInt(0)
    /\ call.args.options.startRow = PyNone
    /\ requests[1].data.v["type"] = PyStr(<<"w", "e", "b">>)
    /\ requests[1].data.v["rowLimit"] = PyInt(0)
    /\ "startRow" \notin DOMAIN requests[1].data.v

\* C9: list_sitemaps without sitemapIndex sends no 'sitemapIndex' parameter;
\* with one, the empty string included, it sends exactly that value.
C9_SitemapIndexAsGiven ==
    (Called /\ call.op = "list_sitemaps") =>
        LET params == requests[1].params
        IN IF call.args.sitemapIndex = PyNone
           THEN "sitemapIndex" \notin DOMAIN params
           ELSE /\ "sitemapIndex" \in DOMAIN params
                /\ params["sitemapIndex"] = call.args.sitemapIndex

\* C9 witness: the empty string was given and sent.
C9_Witness ==
    /\ call.op = "list_sitemaps"
    /\ call.args.sitemapIndex = PyStr(<<>>)
    /\ requests[1].params["sitemapIndex"] = PyStr(<<>>)

\* C10: delete_sitemap and delete_site return None on a 204 answer, whatever
\* its body: the body is not decoded.
C10_DeleteReturnsNone ==
    (Called /\ call.op \in {"delete_sitemap", "delete_site"}
            /\ call.response.kind = "response" /\ call.response.status = 204) =>
        outcome = Return(PyNone)

\* C10 witness: delete_site answered 204 with an empty body.
C10_Witness ==
    /\ call.op = "delete_site"
    /\ call.response = [kind |-> "response", status |-> 204, content |-> EmptyText]
    /\ outcome = Return(PyNone)

====
